---- MODULE Spec2Model ----
(***************************************************************************)
(* Model of hyperlearn2/base.py: the memory estimator (memory), the        *)
(* argument classifier (arg_process), the call guard produced by the       *)
(* process decorator (process.decorate.wrapper) and the lazily bound       *)
(* routine resolvers (lapack, blas).                                       *)
(*                                                                         *)
(* Arrays are modelled by what the code reads of them: their Python type   *)
(* (ndarray, matrix, bool, other scalar), their shape and their dtype.     *)
(* MAX_MEMORY = 0.94 is taken as the rational 94/100.                      *)
(***************************************************************************)
EXTENDS Integers, Sequences, FiniteSets, TLC

\* ------------------------------------------------------------------ bounds
\* largest number of positional arguments of a modelled call
MaxArgs == 2
\* largest number of keyword arguments of a modelled call
MaxKw == 2
\* largest number of calls made on one resolver instance
MaxCalls == 3

\* ------------------------------------------------------- program constants
\* MAX_MEMORY = 0.94, as a percentage
MAX_MEMORY_PCT == 94
\* the shift of ">> 20": bytes to megabytes
MB_SHIFT == 20

MB == 2 ^ MB_SHIFT

SeqToSet(s) == {s[i] : i \in 1..Len(s)}

Min2(a, b) == IF a < b THEN a ELSE b

\* ------------------------------------------------------------------ dtypes
FloatDtypes == {"float16", "float32", "float64"}
ComplexDtypes == {"complex64", "complex128"}
IntegerDtypes == {"int8", "int32", "int64", "uint8", "uint64"}
OtherDtypes == {"bool_", "object_"}
Dtypes == FloatDtypes \cup ComplexDtypes \cup IntegerDtypes \cup OtherDtypes

\* np.dtype(d).itemsize; np.dtype(None) is float64
itemsize(d) ==
  CASE d = "float16" -> 2
    [] d = "float32" -> 4
    [] d = "float64" -> 8
    [] d = "complex64" -> 8
    [] d = "complex128" -> 16
    [] d = "int8" -> 1
    [] d = "int32" -> 4
    [] d = "int64" -> 8
    [] d = "uint8" -> 1
    [] d = "uint64" -> 8
    [] d = "bool_" -> 1
    [] d = "object_" -> 8
    [] d = "None" -> 8

\* maxFloat = np.float64 if _is64 else np.float32
maxFloat(is64bit) == IF is64bit THEN "float64" ELSE "float32"

\* ------------------------------------------------------------------ values
NoShape == << >>
ndarray(shape, dtype) == [kind |-> "ndarray", shape |-> shape, dtype |-> dtype, val |-> FALSE]
matrix(shape, dtype) == [kind |-> "matrix", shape |-> shape, dtype |-> dtype, val |-> FALSE]
pybool(b) == [kind |-> "bool", shape |-> NoShape, dtype |-> "", val |-> b]
\* a value that is no bool, no array and does not compare equal to True
scalar == [kind |-> "scalar", shape |-> NoShape, dtype |-> "", val |-> FALSE]

\* x.astype(dt): a new array of the same shape with dtype dt
astype(x, dt) == [x EXCEPT !.dtype = dt]

\* x.A1 if x.shape[0] == 1 else x.A for an np.matrix x
matrix_to_array(x) ==
  IF x.shape[1] = 1 THEN ndarray(<<x.shape[2]>>, x.dtype)
  ELSE ndarray(x.shape, x.dtype)

\* ------------------------------------------------------------ memory_usage
UsagePatterns == {"full", "same", "triu", "squared", "columns"}

memory_usage(pattern, n, p) ==
  CASE pattern = "full" -> n * p + Min2(n * n, p * p)
    [] pattern = "same" -> n * p
    [] pattern = "triu" -> IF p < n THEN p * p ELSE n * p
    [] pattern = "squared" -> n * n
    [] pattern = "columns" -> p

\* memory(shape, dtype, memcheck): megabytes needed; memcheck "None" costs 0
memory(shape, dtype, memcheck) ==
  IF memcheck = "None" THEN 0
  ELSE LET byte == itemsize(dtype)
           shp == IF Len(shape) = 1 THEN <<1, shape[1]>> ELSE shape
           multiplier == memory_usage(memcheck, shp[1], shp[2])
       IN (multiplier * byte) \div MB

\* ------------------------------------------------------------- arg_process
promote_all_float32(dtype, is64bit) == "float32"

\* the dtype an integer or float16 array is promoted to (lines 65-70)

promote_target(dtype, is64bit) ==
  IF dtype \in IntegerDtypes
  THEN (IF dtype \in {"uint64", "int64"} THEN maxFloat(is64bit) ELSE "float32")
  ELSE "float32"

\* dtype needs no conversion (line 63)
no_conversion(dtype, is64bit) ==
  \/ dtype = "float32"
  \/ dtype = maxFloat(is64bit)
  \/ dtype \in ComplexDtypes

Returned(n, dtype) == [exc |-> "none", n |-> n, dtype |-> dtype]
Raised(exc) == [exc |-> exc, n |-> 0, dtype |-> "None"]

\* arg_process(x, square): ("None" models None, "False" models False)
arg_process(x, square, is64bit) ==
  IF x.kind = "ndarray" /\ Len(x.shape) > 1
  THEN IF square /\ x.shape[1] # x.shape[2]
       THEN Raised("AssertionError")
       ELSE IF no_conversion(x.dtype, is64bit)
            THEN Returned(0, "False")
            ELSE IF x.dtype \in IntegerDtypes \/ x.dtype = "float16"
                 THEN LET dt == promote_target(x.dtype, is64bit)
                      IN IF dt # x.dtype
                         THEN Returned(memory(x.shape, dt, "same"), dt)
                         ELSE Returned(0, "None")
                 ELSE Raised("TypeError")
  ELSE Returned(0, "None")

\* ------------------------------------------------- process: configurations
\* A decorated function: its declared parameters (signature(f).parameters),
\* the keys of memcheck in dict order (memory_keys), the usage pattern of
\* each key (memcheck, after lines 97-105) and the square flag.
Dict(keys, at) == [keys |-> keys, at |-> at]
EmptyDict == Dict(<< >>, [k \in {} |-> scalar])

\* @process(memcheck = {"X":"full","Q_only":"same","R_only":"squared"})
CfgQR ==
  [params |-> <<"X", "Q_only", "R_only", "overwrite">>,
   memory_keys |-> <<"X", "Q_only", "R_only">>,
   memcheck |-> [k \in {"X", "Q_only", "R_only"} |->
                   CASE k = "X" -> "full" [] k = "Q_only" -> "same" [] k = "R_only" -> "squared"],
   square |-> FALSE]

\* @process(memcheck = "full"): the string becomes {"X": "full"} (lines 98-99)
CfgFull ==
  [params |-> <<"X", "alpha">>,
   memory_keys |-> <<"X">>,
   memcheck |-> [k \in {"X"} |-> "full"],
   square |-> FALSE]

\* @process(memcheck = {"X":"triu","U":"same","V":"columns","lower":"squared"}, square = True)
CfgSquare ==
  [params |-> <<"X", "lower", "U", "V">>,
   memory_keys |-> <<"X", "U", "V", "lower">>,
   memcheck |-> [k \in {"X", "U", "V", "lower"} |->
                   CASE k = "X" -> "triu" [] k = "U" -> "same" [] k = "V" -> "columns"
                     [] k = "lower" -> "squared"],
   square |-> TRUE]

Configs == {CfgQR, CfgFull, CfgSquare}

\* ------------------------------------------------------------ call inputs
BigShape == <<1000, 1000>>
\* values of the first positional argument
PrimaryVals ==
  {ndarray(<<2, 3>>, "float32"), ndarray(<<2, 3>>, "bool_"),
   ndarray(BigShape, "float16"), ndarray(BigShape, "float32"),
   ndarray(BigShape, "float64"), ndarray(BigShape, "int64"),
   ndarray(<<3>>, "int32"), matrix(<<1, 3>>, "float32"), scalar}
\* values of the later positional arguments
OtherVals ==
  {pybool(TRUE), pybool(FALSE), scalar, ndarray(<<2, 2>>, "float32"),
   ndarray(BigShape, "int32")}
\* values of the keyword arguments
KwVals ==
  {pybool(TRUE), pybool(FALSE), ndarray(<<2, 2>>, "float32"), matrix(<<2, 2>>, "float16")}

\* keyword names a caller may write: the declared ones and one undeclared
Undeclared == "bogus"
KwNames(c) == SeqToSet(c.params) \cup {Undeclared}

PositionalCalls ==
  {a \in {<< >>} \cup UNION {[1..n -> PrimaryVals \cup OtherVals] : n \in 1..MaxArgs} :
     /\ Len(a) > 0 => a[1] \in PrimaryVals
     /\ \A i \in 2..Len(a) : a[i] \in OtherVals}

KeySeqs(c) ==
  {ks \in UNION {[1..n -> KwNames(c)] : n \in 0..MaxKw} :
     \A i, j \in 1..Len(ks) : i # j => ks[i] # ks[j]}

\* virtual_memory().available in bytes, as mb * 2^20 + rem
ProbeVals ==
  {[mb |-> m, rem |-> 0] : m \in {0, 10, 11, 50, 50000}} \cup {[mb |-> 10, rem |-> MB - 1]}

\* ------------------------------------------------------------------- state
VARIABLES
  cfg, is64,                 \* the decorated function's configuration, _is64
  pc,                        \* position of the wrapper call
  call,                      \* the caller's args and kwargs
  args, kwargs,              \* the wrapper's args tuple and kwargs dict
  otherYes, duplicate,       \* lines 141-142
  need, new_dtypes, X_dtype, \* lines 179-196
  available, free,           \* the memory probe and the budget of line 217
  err, msg, report,          \* the exception raised, its text, its numbers
  converted,                 \* keys and positions on which astype has run
  invoked, received, fret, result,   \* the wrapped function f
  ap,                        \* an application of arg_process
  lap, bl, rc                \* a lapack and a blas resolver, their last call

wvars == <<pc, call, args, kwargs, otherYes, duplicate, need, new_dtypes, X_dtype,
           available, free, err, msg, report, converted, invoked, received, fret, result>>
rvars == <<lap, bl, rc>>
vars == <<cfg, is64, wvars, ap, rvars>>

\* an exception: its class, the place that raises it, the step it left from
NoErr == [type |-> "none", site |-> "", at |-> ""]
Exc(type, site) == [type |-> type, site |-> site, at |-> ""]
NoProbe == [mb |-> 0, rem |-> 0]
NotSampled == 0 - 1

\* ----------------------------------------------------------- dict helpers
HasKey(d, k) == k \in SeqToSet(d.keys)

\* d[k] = v
DictSet(d, k, v) ==
  Dict(IF HasKey(d, k) THEN d.keys ELSE Append(d.keys, k),
       [x \in SeqToSet(d.keys) \cup {k} |-> IF x = k THEN v ELSE d.at[x]])

\* del d[k]
DictDel(d, k) ==
  Dict(SelectSeq(d.keys, LAMBDA x : x # k),
       [x \in SeqToSet(d.keys) \ {k} |-> d.at[x]])

isbool(x) == x.kind = "bool"

\* ------------------------------------------------------ process: the wrapper
NoneConverted == [args |-> {}, kw |-> {}]

Locals0 ==
  /\ otherYes = 0 /\ duplicate = {} /\ need = 0 /\ new_dtypes = << >>
  /\ X_dtype = "unset" /\ available = NoProbe /\ free = NotSampled
  /\ err = NoErr /\ msg = << >> /\ report = << >> /\ converted = NoneConverted
  /\ invoked = FALSE /\ received = [args |-> << >>, kwargs |-> EmptyDict]
  /\ fret = "none" /\ result = "none"

ResetLocals ==
  /\ otherYes' = 0 /\ duplicate' = {} /\ need' = 0 /\ new_dtypes' = << >>
  /\ X_dtype' = "unset" /\ available' = NoProbe /\ free' = NotSampled
  /\ err' = NoErr /\ msg' = << >> /\ report' = << >> /\ converted' = NoneConverted
  /\ invoked' = FALSE /\ received' = [args |-> << >>, kwargs |-> EmptyDict]
  /\ fret' = "none" /\ result' = "none"

\* the exception leaves the wrapper: nothing else changes
Raise(e) == /\ pc' = "raised" /\ err' = [e EXCEPT !.at = pc]

\* wrapper(*args, **kwargs) is entered; the calls modelled have at most one
\* argument more than f declares
Call ==
  /\ pc = "idle"
  /\ \E a \in PositionalCalls, ks \in KeySeqs(cfg) :
       \E vs \in [SeqToSet(ks) -> KwVals] :
         /\ Len(a) + Len(ks) <= Len(cfg.params) + 1
         /\ call' = [args |-> a, kwargs |-> Dict(ks, vs)]
         /\ args' = a
         /\ kwargs' = Dict(ks, vs)
  /\ pc' = "validate"
  /\ ResetLocals
  /\ UNCHANGED <<cfg, is64, ap, rvars>>

\* lines 116-138: arity, the primary argument
Validate ==
  /\ pc = "validate"
  /\ LET no_args == Len(cfg.params)
         l == Len(args)
         L == Len(kwargs.keys)
         size == l + L
     IN IF size = 0 \/ l = 0
        THEN Raise(Exc("IndexError", "no_arguments"))
        ELSE IF size > no_args
        THEN Raise(Exc("IndexError", "too_many"))
        ELSE IF args[1].kind = "matrix"
        THEN Raise(Exc("TypeError", "tuple_assign"))      \* args[0] = X
        ELSE IF args[1].kind # "ndarray"
        THEN Raise(Exc("IndexError", "not_array"))
        ELSE pc' = "flags" /\ err' = err
  /\ UNCHANGED <<cfg, is64, call, args, kwargs, otherYes, duplicate, need, new_dtypes,
                 X_dtype, available, free, msg, report, converted, invoked, received,
                 fret, result, ap, rvars>>

\* lines 144-148: kwargs[memory_keys[i]] = x for each boolean args[i]
RECURSIVE set_booleans(_, _, _, _)
set_booleans(i, a, keys, d) ==
  IF i > Len(a) THEN d
  ELSE set_booleans(i + 1, a, keys,
                    IF isbool(a[i]) THEN DictSet(d, keys[i], a[i]) ELSE d)

BoolPositions(a) == {i \in 1..Len(a) : isbool(a[i])}
TrueCount(a) == Cardinality({i \in BoolPositions(a) : a[i].val})
TrueKw(d) == Cardinality({k \in SeqToSet(d.keys) : isbool(d.at[k]) /\ d.at[k].val})

\* line 162: the primary key is chosen
primary_chosen(yes, memory_length) == yes = memory_length - 1 \/ yes = 0

\* lines 162-169
update_X(d, yes, memory_length) ==
  IF primary_chosen(yes, memory_length)
  THEN DictSet(Dict(d.keys, [k \in SeqToSet(d.keys) |->
                               IF isbool(d.at[k]) THEN pybool(FALSE) ELSE d.at[k]]),
               "X", pybool(TRUE))
  ELSE DictSet(d, "X", pybool(FALSE))

\* lines 172-176
RECURSIVE leftovers(_, _, _)
leftovers(i, keys, d) ==
  IF i > Len(keys) THEN d
  ELSE leftovers(i + 1, keys,
                 IF HasKey(d, keys[i]) THEN d ELSE DictSet(d, keys[i], pybool(FALSE)))

\* lines 158-159: the first literal has no f prefix, so "{x}" is not filled in
name_error_text(x, params) ==
  <<"Argument '", "{x}", "' is not recognised in function. ",
    "Function accepted signature is ", "(">> \o params \o <<")", ".">>

FirstBad(keys, params) ==
  LET bad == {i \in 1..Len(keys) : keys[i] \notin SeqToSet(params)}
  IN IF bad = {} THEN 0 ELSE CHOOSE i \in bad : \A j \in bad : i <= j

\* lines 140-176: the memory-check flags
Flags ==
  /\ pc = "flags"
  /\ LET keys == cfg.memory_keys
         memory_length == Len(keys)
         bools == BoolPositions(args)
     IN IF \E i \in bools : i > memory_length
        THEN /\ Raise(Exc("IndexError", "memory_keys"))     \* memory_keys[i]
             /\ UNCHANGED <<kwargs, otherYes, duplicate, msg>>
        ELSE LET kw1 == set_booleans(1, args, keys, kwargs)
                 bad == FirstBad(kw1.keys, cfg.params)
                 yes == TrueCount(args) + TrueKw(kw1)
             IN IF bad # 0
                THEN /\ Raise(Exc("NameError", "unknown_keyword"))
                     /\ msg' = name_error_text(kw1.keys[bad], cfg.params)
                     /\ kwargs' = kw1
                     /\ duplicate' = bools
                     /\ UNCHANGED otherYes
                ELSE /\ otherYes' = yes
                     /\ duplicate' = bools
                     /\ kwargs' = leftovers(1, keys, update_X(kw1, yes, memory_length))
                     /\ pc' = "classify"
                     /\ UNCHANGED <<err, msg>>
  /\ UNCHANGED <<cfg, is64, call, args, need, new_dtypes, X_dtype, available, free,
                 report, converted, invoked, received, fret, result, ap, rvars>>

\* ----------------------------------------------------- lines 178-205: classify
ClassifyError(exc) ==
  IF exc = "AssertionError" THEN Exc("AssertionError", "not_square")
  ELSE Exc("TypeError", "unsupported_dtype")

Acc(e, n, dts, xd, d) == [exc |-> e, need |-> n, dts |-> dts, X_dtype |-> xd, kwargs |-> d]

\* lines 182-196
RECURSIVE classify_args(_, _, _, _, _)
classify_args(i, a, square, is64bit, acc) ==
  IF i > Len(a) THEN acc
  ELSE IF i # 1 /\ a[i].kind = "matrix"
  THEN [acc EXCEPT !.exc = Exc("TypeError", "tuple_assign")]     \* args[i] = x.A
  ELSE LET r == arg_process(a[i], square, is64bit)
       IN IF r.exc # "none"
          THEN [acc EXCEPT !.exc = ClassifyError(r.exc)]
          ELSE LET dtype == IF i = 1 /\ r.dtype = "False" THEN "None" ELSE r.dtype
                   xd == IF i # 1 THEN acc.X_dtype
                         ELSE IF r.dtype = "False" THEN a[i].dtype ELSE r.dtype
               IN classify_args(i + 1, a, square, is64bit,
                                Acc(acc.exc, acc.need + r.n, Append(acc.dts, dtype),
                                    xd, acc.kwargs))

\* classification that converts each keyword array as soon as it is classified
RECURSIVE classify_kwargs_eager(_, _, _, _)
classify_kwargs_eager(j, square, is64bit, acc) ==
  IF j > Len(acc.kwargs.keys) THEN acc
  ELSE LET k == acc.kwargs.keys[j]
           d == IF acc.kwargs.at[k].kind = "matrix"
                THEN DictSet(acc.kwargs, k, matrix_to_array(acc.kwargs.at[k]))
                ELSE acc.kwargs
           r == arg_process(d.at[k], square, is64bit)
       IN IF r.exc # "none"
          THEN [acc EXCEPT !.exc = ClassifyError(r.exc), !.kwargs = d]
          ELSE classify_kwargs_eager(j + 1, square, is64bit,
                 Acc(acc.exc, acc.need + r.n, Append(acc.dts, r.dtype), acc.X_dtype,
                     IF r.dtype \in {"None", "False"} THEN d
                     ELSE DictSet(d, k, astype(d.at[k], r.dtype))))

\* lines 198-205
RECURSIVE classify_kwargs(_, _, _, _)
classify_kwargs(j, square, is64bit, acc) ==
  IF j > Len(acc.kwargs.keys) THEN acc
  ELSE LET k == acc.kwargs.keys[j]
           d == IF acc.kwargs.at[k].kind = "matrix"
                THEN DictSet(acc.kwargs, k, matrix_to_array(acc.kwargs.at[k]))
                ELSE acc.kwargs
           r == arg_process(d.at[k], square, is64bit)
       IN IF r.exc # "none"
          THEN [acc EXCEPT !.exc = ClassifyError(r.exc), !.kwargs = d]
          ELSE classify_kwargs(j + 1, square, is64bit,
                               Acc(acc.exc, acc.need + r.n, Append(acc.dts, r.dtype),
                                   acc.X_dtype, d))

classify_all(a, d, square, is64bit) ==
  LET pos == classify_args(1, a, square, is64bit, Acc(NoErr, 0, << >>, "unset", d))
  IN IF pos.exc # NoErr THEN pos ELSE classify_kwargs(1, square, is64bit, pos)

Classify ==
  /\ pc = "classify"
  /\ LET acc == classify_all(args, kwargs, cfg.square, is64)
     IN /\ kwargs' = acc.kwargs
        /\ IF acc.exc # NoErr
           THEN Raise(acc.exc) /\ UNCHANGED <<need, new_dtypes, X_dtype>>
           ELSE /\ need' = acc.need
                /\ new_dtypes' = acc.dts
                /\ X_dtype' = acc.X_dtype
                /\ pc' = "cost"
                /\ UNCHANGED err
  /\ UNCHANGED <<cfg, is64, call, args, otherYes, duplicate, available, free, msg,
                 report, converted, invoked, received, fret, result, ap, rvars>>

\* ----------------------------------------------------- lines 208-213: costing
\* kwargs[i] == True for an array compares elementwise and has no truth value
is_true(x) == isbool(x) /\ x.val
ambiguous(x) == x.kind \in {"ndarray", "matrix"}

\* the first key, in memory_keys order, that stops the scan (0: none does)
first_flag(keys, d) ==
  LET hit == {i \in 1..Len(keys) : is_true(d.at[keys[i]]) \/ ambiguous(d.at[keys[i]])}
  IN IF hit = {} THEN 0 ELSE CHOOSE i \in hit : \A j \in hit : i <= j

Cost ==
  /\ pc = "cost"
  /\ LET shape == args[1].shape
         i == first_flag(cfg.memory_keys, kwargs)
     IN IF i = 0
        THEN pc' = "budget" /\ UNCHANGED <<need, err>>
        ELSE IF ambiguous(kwargs.at[cfg.memory_keys[i]])
        THEN Raise(Exc("ValueError", "ambiguous_truth")) /\ UNCHANGED need
        ELSE /\ need' = need + memory(shape, X_dtype, cfg.memcheck[cfg.memory_keys[i]])
             /\ pc' = "budget"
             /\ UNCHANGED err
  /\ UNCHANGED <<cfg, is64, call, args, kwargs, otherYes, duplicate, new_dtypes, X_dtype,
                 available, free, msg, report, converted, invoked, received, fret,
                 result, ap, rvars>>

\* ------------------------------------------------------ lines 215-220: budget
\* int(virtual_memory().available * MAX_MEMORY) >> 20 for mb * 2^20 + rem bytes
free_mb(probe) == (probe.mb * MAX_MEMORY_PCT + (probe.rem * MAX_MEMORY_PCT) \div MB) \div 100

\* line 218
memory_rejected_at_equal(n, f) == n >= f

memory_rejected(n, f) == n > f

Budget ==
  /\ pc = "budget"
  /\ IF need > 0
     THEN \E probe \in ProbeVals :
            /\ available' = probe
            /\ free' = free_mb(probe)
            /\ IF memory_rejected(need, free_mb(probe))
               THEN /\ Raise(Exc("MemoryError", "insufficient"))
                    /\ report' = <<need, free_mb(probe), need - free_mb(probe)>>
               ELSE pc' = "convert" /\ UNCHANGED <<err, report>>
     ELSE pc' = "convert" /\ UNCHANGED <<available, free, err, report>>
  /\ UNCHANGED <<cfg, is64, call, args, kwargs, otherYes, duplicate, need, new_dtypes,
                 X_dtype, msg, converted, invoked, received, fret, result, ap, rvars>>

\* ----------------------------------------------------- lines 222-233: convert
\* first position whose new dtype is not None (0: none)
first_positional(dts, l) ==
  LET hit == {i \in 1..l : dts[i] # "None"}
  IN IF hit = {} THEN 0 ELSE CHOOSE i \in hit : \A j \in hit : i <= j

CAcc(e, d, done) == [exc |-> e, kwargs |-> d, done |-> done]

\* lines 229-233: kwargs[i] = kwargs[i].astype(dtype)
RECURSIVE convert_kwargs(_, _, _, _)
convert_kwargs(j, dts, l, acc) ==
  IF j > Len(acc.kwargs.keys) THEN acc
  ELSE LET k == acc.kwargs.keys[j]
           dtype == dts[l + j]
       IN IF dtype = "None" THEN convert_kwargs(j + 1, dts, l, acc)
          ELSE IF dtype = "False"
          THEN [acc EXCEPT !.exc = Exc("TypeError", "astype_False")]
          ELSE convert_kwargs(j + 1, dts, l,
                              CAcc(acc.exc, DictSet(acc.kwargs, k, astype(acc.kwargs.at[k], dtype)),
                                   acc.done \cup {k}))

Convert ==
  /\ pc = "convert"
  /\ LET l == Len(args)
         i == first_positional(new_dtypes, l)
     IN IF i # 0
        THEN IF new_dtypes[i] = "False"
             THEN Raise(Exc("TypeError", "astype_False")) /\ UNCHANGED <<kwargs, converted>>
             ELSE /\ converted' = [converted EXCEPT !.args = @ \cup {i}]
                  /\ Raise(Exc("TypeError", "tuple_assign"))       \* args[i] = ...
                  /\ UNCHANGED kwargs
        ELSE LET acc == convert_kwargs(1, new_dtypes, l, CAcc(NoErr, kwargs, {}))
             IN /\ kwargs' = acc.kwargs
                /\ converted' = [converted EXCEPT !.kw = acc.done]
                /\ IF acc.exc # NoErr THEN Raise(acc.exc)
                   ELSE pc' = "clean" /\ UNCHANGED err
  /\ UNCHANGED <<cfg, is64, call, args, otherYes, duplicate, need, new_dtypes, X_dtype,
                 available, free, msg, report, invoked, received, fret, result, ap, rvars>>

\* ------------------------------------------------------- lines 235-241: clean
Clean ==
  /\ pc = "clean"
  /\ IF \E i \in 2..Len(args) : i \in duplicate
     THEN Raise(Exc("TypeError", "tuple_del")) /\ UNCHANGED kwargs    \* del args[l]
     ELSE /\ kwargs' = DictDel(kwargs, "X")
          /\ pc' = "delegate"
          /\ UNCHANGED err
  /\ UNCHANGED <<cfg, is64, call, args, otherYes, duplicate, need, new_dtypes, X_dtype,
                 available, free, msg, report, converted, invoked, received, fret,
                 result, ap, rvars>>

\* ---------------------------------------------------- lines 243-248: delegate
\* f(*args, **kwargs) cannot bind a parameter both by position and by keyword
multiple_values(a, d, params) == \E i \in 1..Len(a) : HasKey(d, params[i])

FOutcomes == {"r1", "r2", "MemoryError", "ValueError"}

Delegate ==
  /\ pc = "delegate"
  /\ IF multiple_values(args, kwargs, cfg.params)
     THEN /\ Raise(Exc("TypeError", "multiple_values"))
          /\ UNCHANGED <<invoked, received, fret, result>>
     ELSE \E out \in FOutcomes :
            /\ invoked' = TRUE
            /\ received' = [args |-> args, kwargs |-> kwargs]
            /\ fret' = out
            /\ IF out = "MemoryError"
               THEN Raise(Exc("MemoryError", "exhausted")) /\ UNCHANGED result
               ELSE IF out = "ValueError"
               THEN Raise(Exc("ValueError", "in_f")) /\ UNCHANGED result
               ELSE pc' = "returned" /\ result' = out /\ UNCHANGED err
  /\ UNCHANGED <<cfg, is64, call, args, kwargs, otherYes, duplicate, need, new_dtypes,
                 X_dtype, available, free, msg, report, converted, ap, rvars>>

\* the call is over; the wrapper keeps nothing of it
Finish ==
  /\ pc \in {"returned", "raised"}
  /\ pc' = "idle"
  /\ call' = [args |-> << >>, kwargs |-> EmptyDict]
  /\ args' = << >>
  /\ kwargs' = EmptyDict
  /\ ResetLocals
  /\ UNCHANGED <<cfg, is64, ap, rvars>>

\* ------------------------------------------------- arg_process, applied alone
ApVals ==
  {ndarray(sh, d) : sh \in {<<3>>, <<2, 2>>, <<2, 3>>, BigShape}, d \in Dtypes}
  \cup {matrix(<<2, 2>>, "float32"), pybool(TRUE), scalar}

NoAp ==
  [x |-> [kind |-> "unset", shape |-> NoShape, dtype |-> "", val |-> FALSE],
   square |-> FALSE, out |-> Returned(0, "None"), done |-> FALSE]

\* an argument and a square flag are chosen
ApChoose ==
  /\ \/ ap = NoAp
     \/ ap.done
  /\ \E x \in ApVals, sq \in BOOLEAN :
       ap' = [x |-> x, square |-> sq, out |-> Returned(0, "None"), done |-> FALSE]
  /\ UNCHANGED <<cfg, is64, wvars, rvars>>

\* arg_process(x, square) is evaluated
ApApply ==
  /\ ap # NoAp
  /\ ~ap.done
  /\ ap' = [ap EXCEPT !.out = arg_process(ap.x, ap.square, is64), !.done = TRUE]
  /\ UNCHANGED <<cfg, is64, wvars, rvars>>

\* ------------------------------------------------------------------- resolvers
\* The four precision variants; "numba" is the routine of _numba bound at
\* construction; "None" is self.f = None.
Variants == {"s", "d", "c", "z"}
ResolverDtypes == {"float32", "float64", "complex64", "complex128", "float16", "int32"}

rebind_always(f) == TRUE

\* lines 282 and 319: if self.f == None
needs_binding(f) == f = "None"

\* lapack.__call__, lines 289-296
lapack_variant(dtype, turbo) ==
  IF dtype = "float32" /\ turbo THEN "s"
  ELSE IF dtype = "float64" \/ ~turbo THEN "d"
  ELSE IF dtype = "complex64" THEN "c"
  ELSE "z"

\* blas.__call__, lines 325-332
blas_variant(dtype) ==
  IF dtype = "float32" THEN "s"
  ELSE IF dtype = "float64" THEN "d"
  ELSE IF dtype = "complex64" THEN "c"
  ELSE "z"

\* a call's arguments, by what the resolver reads: the dtype of each array
\* ("noattr": a value without a dtype attribute)
RArgVals == ResolverDtypes \cup {"noattr"}
RCalls ==
  {[args |-> a, kwargs |-> k] :
     a \in {<< >>} \cup {<<d>> : d \in RArgVals},
     k \in {<< >>} \cup {<<d>> : d \in RArgVals}}

\* lines 284-287: dtype = args[0].dtype, or that of the first keyword value
first_dtype(c) ==
  IF Len(c.args) > 0 THEN c.args[1]
  ELSE IF Len(c.kwargs) > 0 THEN c.kwargs[1]
  ELSE "StopIteration"

NoLap == [function |-> "getrf", turbo |-> TRUE, f |-> "None", callable |-> FALSE,
          lib |-> Variants]
NoBl == [function |-> "gemm", f |-> "None", callable |-> FALSE, lib |-> Variants]
\* the last call made, and what the first binding of each resolver was
NoRc == [n |-> 0, target |-> "none", dtype |-> "none", inspected |-> FALSE,
         invoked |-> "none", exc |-> "none", was_bound |-> FALSE,
         lap_first |-> "none", lap_bound |-> "None",
         bl_first |-> "none", bl_bound |-> "None"]

\* lapack.__init__, lines 270-279: numba is None, a name _numba has, or one it lacks
lapack_init(turbo, numba, lib) ==
  IF numba = "resolves"
  THEN [function |-> "numba_getrf", turbo |-> turbo, f |-> "numba", callable |-> TRUE, lib |-> lib]
  ELSE [function |-> "getrf", turbo |-> turbo, f |-> "None", callable |-> FALSE, lib |-> lib]

\* blas.__init__, lines 314-316
blas_init(lib) == [function |-> "gemm", f |-> "None", callable |-> FALSE, lib |-> lib]

\* the routines scipy has for a name: all four, or the real ones only
Libs == {Variants, {"s", "d"}}

\* one __call__ of a resolver r whose dispatch picks variant v for dtype dt
resolver_call(r, c, v) ==
  LET dt == first_dtype(c)
  IN IF needs_binding(r.f)
     THEN IF dt = "StopIteration"
          THEN [r |-> r, exc |-> "StopIteration", invoked |-> "none", inspected |-> FALSE]
          ELSE IF dt = "noattr"
          THEN [r |-> r, exc |-> "AttributeError", invoked |-> "none", inspected |-> FALSE]
          ELSE IF v \in r.lib
          THEN [r |-> [r EXCEPT !.f = v, !.callable = TRUE], exc |-> "none",
                invoked |-> v, inspected |-> TRUE]
          \* eval fails: self.f keeps the name string
          ELSE [r |-> [r EXCEPT !.f = v, !.callable = FALSE], exc |-> "AttributeError",
                invoked |-> "none", inspected |-> TRUE]
     ELSE IF r.callable
          THEN [r |-> r, exc |-> "none", invoked |-> r.f, inspected |-> FALSE]
          \* self.f is a str: not callable
          ELSE [r |-> r, exc |-> "TypeError", invoked |-> "none", inspected |-> FALSE]

\* lapack.__call__, lines 281-299
LapackCall ==
  /\ rc.n < MaxCalls
  /\ \E c \in RCalls :
       LET dt == first_dtype(c)
           out == resolver_call(lap, c, lapack_variant(dt, lap.turbo))
           binds == lap.f = "None" /\ out.r.f # "None"
       IN /\ lap' = out.r
          /\ rc' = [rc EXCEPT !.n = @ + 1, !.target = "lapack", !.dtype = dt,
                              !.inspected = out.inspected, !.invoked = out.invoked,
                              !.exc = out.exc, !.was_bound = lap.f # "None",
                              !.lap_first = IF binds THEN dt ELSE @,
                              !.lap_bound = IF binds THEN out.r.f ELSE @]
  /\ UNCHANGED <<cfg, is64, wvars, ap, bl>>

\* blas.__call__, lines 318-335
BlasCall ==
  /\ rc.n < MaxCalls
  /\ \E c \in RCalls :
       LET dt == first_dtype(c)
           out == resolver_call(bl, c, blas_variant(dt))
           binds == bl.f = "None" /\ out.r.f # "None"
       IN /\ bl' = out.r
          /\ rc' = [rc EXCEPT !.n = @ + 1, !.target = "blas", !.dtype = dt,
                              !.inspected = out.inspected, !.invoked = out.invoked,
                              !.exc = out.exc, !.was_bound = bl.f # "None",
                              !.bl_first = IF binds THEN dt ELSE @,
                              !.bl_bound = IF binds THEN out.r.f ELSE @]
  /\ UNCHANGED <<cfg, is64, wvars, ap, lap>>

\* ---------------------------------------------------------- specifications
WrapperIdle ==
  /\ pc = "idle"
  /\ call = [args |-> << >>, kwargs |-> EmptyDict]
  /\ args = << >>
  /\ kwargs = EmptyDict
  /\ Locals0

\* calls of a wrapper produced by process
Init ==
  /\ cfg \in Configs
  /\ is64 \in BOOLEAN
  /\ WrapperIdle
  /\ ap = NoAp
  /\ lap = NoLap /\ bl = NoBl /\ rc = NoRc

Next ==
  \/ Call \/ Validate \/ Flags \/ Classify \/ Cost \/ Budget \/ Convert \/ Clean
  \/ Delegate \/ Finish

Spec == Init /\ [][Next]_vars

\* applications of arg_process
InitArg ==
  /\ cfg = CfgQR
  /\ is64 \in BOOLEAN
  /\ WrapperIdle
  /\ ap = NoAp
  /\ lap = NoLap /\ bl = NoBl /\ rc = NoRc

NextArg == ApChoose \/ ApApply

SpecArg == InitArg /\ [][NextArg]_vars

\* calls on one lapack and one blas resolver instance
InitResolver ==
  /\ cfg = CfgQR
  /\ is64 = TRUE
  /\ WrapperIdle
  /\ ap = NoAp
  /\ \E turbo \in BOOLEAN, numba \in {"None", "resolves", "fails"}, lib \in Libs :
       /\ lap = lapack_init(turbo, numba, lib)
       /\ bl = blas_init(lib)
       /\ rc = [NoRc EXCEPT !.lap_bound = lapack_init(turbo, numba, lib).f]

NextResolver == LapackCall \/ BlasCall

SpecResolver == InitResolver /\ [][NextResolver]_vars

\* ===================================================================== claims
Terminal == pc \in {"returned", "raised"}

\* the call has left the memory check behind (line 221 was reached)
PassedBudget ==
  \/ pc \in {"convert", "clean", "delegate", "returned"}
  \/ pc = "raised" /\ err.at \in {"convert", "clean", "delegate"}

RejectedForMemory == pc = "raised" /\ err.at = "budget"

ListedSites ==
  {"no_arguments", "too_many", "not_array", "not_square", "unsupported_dtype",
   "unknown_keyword", "insufficient"}

\* no array the caller passed by keyword has another dtype in the wrapper's kwargs
KeywordDtypesKept ==
  \A k \in SeqToSet(call.kwargs.keys) :
    (HasKey(kwargs, k) /\ kwargs.at[k].kind = "ndarray"
       /\ call.kwargs.at[k].kind \in {"ndarray", "matrix"})
      => kwargs.at[k].dtype = call.kwargs.at[k].dtype

\* C5: when a call fails with one of the listed pre-dispatch errors, no
\* argument has been converted, the positional arguments are the caller's and
\* the wrapped function has not been invoked; a conversion only ever happens
\* once classification and the memory check have both succeeded.
C5_NoConversionBeforeChecks ==
  /\ (pc = "raised" /\ err.site \in ListedSites) =>
       /\ converted = NoneConverted
       /\ KeywordDtypesKept
       /\ args = call.args
       /\ ~invoked
  /\ (converted # NoneConverted \/ ~KeywordDtypesKept) => PassedBudget

C5_Witness ==
  /\ pc = "raised"
  /\ err.site = "insufficient"
  /\ \E k \in SeqToSet(call.kwargs.keys) :
       /\ call.kwargs.at[k].dtype = "float16"
       /\ new_dtypes[Len(args) + CHOOSE j \in 1..Len(kwargs.keys) : kwargs.keys[j] = k] = "float32"

\* what the claim says arg_process(x, square) does, whatever square is
ClaimedArgProcess(x, is64bit) ==
  IF x.kind # "ndarray" \/ Len(x.shape) < 2 THEN Returned(0, "None")
  ELSE IF x.dtype = "float32" \/ x.dtype = maxFloat(is64bit) \/ x.dtype \in ComplexDtypes
  THEN Returned(0, "False")
  ELSE IF x.dtype \in {"int64", "uint64"}
  THEN Returned(memory(x.shape, maxFloat(is64bit), "same"), maxFloat(is64bit))
  ELSE IF x.dtype \in IntegerDtypes \/ x.dtype = "float16"
  THEN Returned(memory(x.shape, "float32", "same"), "float32")
  ELSE Raised("TypeError")

\* the square check of lines 57-60 lets x through
SquareCheckPasses(x, square) ==
  ~(square /\ x.kind = "ndarray" /\ Len(x.shape) > 1 /\ x.shape[1] # x.shape[2])

\* C6 as stated: for every x and either square flag, arg_process(x, square)
\* gives (0, None) for a non-array or an array of fewer than 2 dimensions,
\* (0, False) for float32, the platform's double and complex arrays, the
\* 'same'-pattern cost and the target (the platform's double for int64 and
\* uint64, float32 for the other integers and float16), and raises the
\* unsupported-dtype error for any other dtype.
C6_AsStated == ap.done => ap.out = ClaimedArgProcess(ap.x, is64)

\* C6 amended: the same, for every x the square check lets through; an array
\* of 2 dimensions that is not square, under square, raises the shape error
\* whatever its dtype.
C6_ArgProcessPolicy ==
  ap.done =>
    IF SquareCheckPasses(ap.x, ap.square)
    THEN ap.out = ClaimedArgProcess(ap.x, is64)
    ELSE ap.out = Raised("AssertionError")

C6_Witness ==
  /\ ap.done
  /\ is64
  /\ ap.x = ndarray(BigShape, "int64")
  /\ ap.out = Returned(7, "float64")

\* C9: once a lapack or blas resolver holds a binding, the binding never
\* changes, and every later call invokes the routine bound first, whatever
\* the dtype of its arguments, without looking at the dtype again.
C9_BindingMemoized ==
  /\ lap.f \in {"None", rc.lap_bound}
  /\ bl.f \in {"None", rc.bl_bound}
  /\ (rc.target = "lapack" /\ rc.was_bound) =>
       /\ ~rc.inspected
       /\ rc.invoked \in {rc.lap_bound, "none"}
       /\ rc.invoked = "none" => rc.exc = "TypeError" /\ ~lap.callable
  /\ (rc.target = "blas" /\ rc.was_bound) =>
       /\ ~rc.inspected
       /\ rc.invoked \in {rc.bl_bound, "none"}
       /\ rc.invoked = "none" => rc.exc = "TypeError" /\ ~bl.callable

\* a getrf resolver bound by a float32 call is called with float64 and
\* invokes the single-real routine again
C9_Witness ==
  /\ rc.target = "lapack"
  /\ rc.was_bound
  /\ rc.lap_first = "float32"
  /\ rc.dtype = "float64"
  /\ rc.invoked = "s"

\* the variant the claim says a first call binds
ClaimedLapackVariant(dtype, turbo) ==
  CASE dtype = "float32" -> IF turbo THEN "s" ELSE "d"
    [] dtype = "float64" -> "d"
    [] dtype = "complex64" -> "c"
    [] dtype = "complex128" -> "z"
    [] OTHER -> "z"

\* C10 as stated: the first call of a lapack resolver without a fast-path
\* routine binds, for either value of turbo, single-real for float32 under
\* turbo and double-real for float32 otherwise, double-real for float64,
\* single-complex for complex64, double-complex for complex128 and for any
\* other dtype.
C10_AsStated ==
  rc.lap_first # "none" => rc.lap_bound = ClaimedLapackVariant(rc.lap_first, lap.turbo)

\* the caller passed only booleans besides the primary argument, and the
\* primary argument by position only
OnlyBooleanFlags ==
  /\ ~HasKey(call.kwargs, "X")
  /\ \A i \in 2..Len(call.args) : isbool(call.args[i])
  /\ \A k \in SeqToSet(call.kwargs.keys) : isbool(call.kwargs.at[k])

\* the memory-check keys, other than X, the caller set to True
SetTrueByCaller ==
  {k \in SeqToSet(cfg.memory_keys) \ {"X"} :
     \/ HasKey(call.kwargs, k) /\ is_true(call.kwargs.at[k])
     \/ \E i \in 2..Len(call.args) :
          i <= Len(cfg.memory_keys) /\ cfg.memory_keys[i] = k /\ is_true(call.args[i])}

\* C2 as stated: at the costing step of a call with boolean flags only,
\* exactly one key of memcheck holds True in kwargs and every other holds
\* False, and that key is X when the caller set none of the other keys, or
\* all of them, to True.
C2_AsStated ==
  (pc = "cost" /\ OnlyBooleanFlags) =>
    LET keys == SeqToSet(cfg.memory_keys)
        on == {k \in keys : is_true(kwargs.at[k])}
    IN /\ Cardinality(on) = 1
       /\ \A k \in keys \ on : kwargs.at[k] = pybool(FALSE)
       /\ SetTrueByCaller \in {{}, keys \ {"X"}} => on = {"X"}

\* the dtype classification assigned to an array whose new dtype is dt
Assigned(x, dt) == IF dt \in {"None", "False"} THEN x.dtype ELSE dt

\* C3 as stated: in an admitted call no conversion raises, the wrapped
\* function receives every array with the dtype classification assigned (the
\* original one where no conversion is needed), and the wrapper returns the
\* wrapped function's result.
C3_AsStated ==
  /\ pc = "raised" => err.at # "convert"
  /\ invoked =>
       /\ \A i \in 1..Len(received.args) :
            received.args[i].dtype = Assigned(call.args[i], new_dtypes[i])
       /\ \A j \in 1..Len(kwargs.keys) :
            HasKey(received.kwargs, kwargs.keys[j]) /\ HasKey(call.kwargs, kwargs.keys[j])
              => received.kwargs.at[kwargs.keys[j]].dtype
                   = Assigned(call.kwargs.at[kwargs.keys[j]], new_dtypes[Len(args) + j])
  /\ pc = "returned" => result = fret

\* the scenario: usage pattern 'full', one argument, 1000x1000 float16
Scenario ==
  /\ cfg = CfgFull
  /\ call.args = <<ndarray(BigShape, "float16")>>
  /\ call.kwargs = EmptyDict

\* C4 as stated: in the scenario, 50 MB available ends in MemoryError without
\* the wrapped function being invoked, and 50000 MB available ends with the
\* wrapped function having received a 1000x1000 float32 array.
C4_AsStated ==
  (Scenario /\ Terminal) =>
    /\ available = [mb |-> 50, rem |-> 0] =>
         err.type = "MemoryError" /\ err.site = "insufficient" /\ ~invoked
    /\ available = [mb |-> 50000, rem |-> 0] =>
         invoked /\ received.args = <<ndarray(BigShape, "float32")>>

\* C7 as stated: a call with a keyword that is no declared parameter never
\* reaches the wrapped function, and the NameError it raises carries that
\* keyword's name in its text.
C7_AsStated ==
  /\ invoked => SeqToSet(call.kwargs.keys) \subseteq SeqToSet(cfg.params)
  /\ (pc = "raised" /\ err.site = "unknown_keyword") =>
       /\ err.type = "NameError"
       /\ ~invoked
       /\ \E k \in SeqToSet(kwargs.keys) \ SeqToSet(cfg.params) : k \in SeqToSet(msg)

\* C8 as stated: each boolean positional argument after the first sets the
\* flag named like the parameter at its position, its removal from the
\* positional list succeeds, and the wrapped function receives the other
\* positional arguments in their order.
C8_AsStated ==
  /\ pc = "raised" => err.site # "tuple_del"
  /\ invoked =>
       /\ received.args = SelectSeq(call.args, LAMBDA x : ~isbool(x))
       /\ \A i \in BoolPositions(call.args) :
            HasKey(received.kwargs, cfg.params[i]) /\ isbool(received.kwargs.at[cfg.params[i]])
====
